---- MODULE Spec2Model ----
(***************************************************************************)
(* Sprite-sheet GIF creator: grid addressing (exporter, live preview, grid *)
(* overlay), frame extraction, chroma keying and the export pipeline,      *)
(* together with the configuration state of the application that feeds     *)
(* them.                                                                   *)
(*                                                                         *)
(* Specifications:                                                         *)
(*   Spec       - the application: configuration edits, image load and     *)
(*                the export pipeline with its encoder.                    *)
(*   SpecGrid   - configuration edits alone, over wider grids, for the     *)
(*                addressing functions.                                    *)
(*   SpecImages - the sources of the canvas image: upload, template load   *)
(*                and sprite generation, with the grid inputs.             *)
(*   SpecPreview- the live preview player and its animation clock.         *)
(*   SpecHistory- uploads and several exports, for the history of exports  *)
(*                and the status reset.                                    *)
(*   SpecRetry  - one call of retryOperation.                              *)
(*   SpecChroma - applyChromaKey applied to pixel buffers.                 *)
(***************************************************************************)
EXTENDS Integers, Sequences, FiniteSets, TLC

VARIABLES
    config,           \* App state `config` (SpriteConfig)
    imageUrl,         \* App state `imageUrl` (Null or an image)
    dimensions,       \* App state `dimensions` (ImageDimensions)
    processingState,  \* App state `processingState`
    savedGifs,        \* App state `savedGifs`, newest first
    exports,          \* handleExport invocations that have not settled yet
    detects,          \* handleAutoDetect invocations awaiting the service
    resetTimers,      \* pending setTimeout(..., 2000) callbacks of handleExport
    uiInFlight,       \* UI events handled since an export went in flight
    data,             \* ImageData.data of applyChromaKey, one record per pixel
    passes,           \* buffers seen by applyChromaKey: input, after 1 call, ...
    genConfig,        \* App state `genConfig` (GenerationConfig)
    generations,      \* handleGenerateSprite invocations awaiting the service
    preview,          \* PreviewPlayer: isPlaying, currentFrame, the pending frame request
    now,              \* the clock requestAnimationFrame passes to its callback (ms)
    retry             \* one call of retryOperation: its attempts, errors and waits

vars == <<config, imageUrl, dimensions, processingState, savedGifs, exports,
          detects, resetTimers, uiInFlight, data, passes, genConfig,
          generations, preview, now, retry>>

appVars == <<config, imageUrl, dimensions, processingState, savedGifs, exports,
             detects, resetTimers, uiInFlight, genConfig, generations, preview,
             now, retry>>

chromaVars == <<data, passes>>

(***************************************************************************)
(* Bounds of the model.                                                    *)
(***************************************************************************)
MaxDim == 3            \* largest rows/cols value typed into the inputs
MaxSliderDrop == 1     \* the frames slider is moved at most this far below rows*cols (Spec)
MaxUiInFlight == 1     \* UI events handled while an export is in flight
MaxExports == 1        \* exports started in one behaviour
MaxHistory == 2        \* ... and where the history of exports is observed
MaxDetects == 1        \* auto-detect requests awaiting the service
MaxPixels == 2         \* pixels of a chroma-key buffer
MaxPasses == 2         \* successive applications of applyChromaKey
MaxGenerations == 1    \* sprite generations awaiting the service
MaxNow == 720          \* the animation clock stops here (ms)

Null == "null"

(***************************************************************************)
(* JavaScript arithmetic.                                                  *)
(***************************************************************************)
Abs(x) == IF x < 0 THEN 0 - x ELSE x

\* Math.floor(a / b) for integers a, b with b # 0.
FloorDiv(a, b) ==
    IF b > 0 THEN a \div b ELSE (0 - a) \div (0 - b)

\* a % b of JavaScript: the remainder takes the sign of the dividend.
JsMod(a, b) ==
    LET r == Abs(a) % Abs(b) IN IF a < 0 THEN 0 - r ELSE r

\* A quotient a / b kept exact, as numerator and denominator.
Quot(a, b) == [num |-> a, den |-> b]

\* q * k for a quotient q and an integer k.
Times(q, k) == [num |-> q.num * k, den |-> q.den]

\* Equality of two quotients with non-zero denominators.
QuotEq(p, q) == p.num * q.den = q.num * p.den

\* q = k for a quotient q and an integer k.
QuotIsInt(q, k) == q.num = k * q.den

\* Math.round(a / b) for a >= 0, b > 0: floor(a/b + 1/2).
RoundQuot(a, b) == (2 * a + b) \div (2 * b)

\* An `unsigned long` attribute assigned a non-negative quotient keeps its
\* integer part.
Truncate(q) ==
    IF q.den > 0 /\ q.num >= 0 THEN q.num \div q.den ELSE 0

(***************************************************************************)
(* Configuration and source images.                                        *)
(***************************************************************************)
INITIAL_CONFIG ==
    [rows |-> 4, cols |-> 4, totalFrames |-> 16, fps |-> 12, scale |-> 1,
     transparent |-> Null, autoTransparent |-> TRUE, direction |-> "row"]

\* The images a user can load, and the natural size the browser decodes.
Images == {"sheetA", "sheetB"}

\* The image the model loads while exports run (Spec).
ExportImages == {"sheetA"}

NaturalSize(img) ==
    IF img = "sheetA" THEN [width |-> 400, height |-> 400]
                      ELSE [width |-> 90, height |-> 60]

\* The sheets the generation service returns, the templates and character
\* images a user picks, and the failure notices of handleGenerateSprite.
GeneratedImages == {"sheetG"}

TemplateImages == {"sheetT"}

CharacterImages == {"hero"}

GenerationErrors ==
    {"Generation failed. Please try again.",
     "Permission denied. Please select a valid API key with billing enabled.",
     "The AI model is currently overloaded with high traffic. Please wait a moment and try again."}

NoDimensions == [width |-> 0, height |-> 0]

\* useState<GenerationConfig>: prompt and size play no part in the handlers
\* modelled here.
InitialGenConfig ==
    [mode |-> "template", templateImage |-> Null, characterImage |-> Null,
     actionPrompt |-> ""]

Idle == [status |-> "idle", progress |-> 0, error |-> Null]

(***************************************************************************)
(* Grid addressing, as each of the three consumers computes it.            *)
(***************************************************************************)
\* ExporterCell with the two traversal orders exchanged.
ExporterCellOrdersExchanged(cfg, i) ==
    IF cfg.direction = "column"
    THEN [row |-> FloorDiv(i, cfg.cols), col |-> JsMod(i, cfg.cols)]
    ELSE [row |-> JsMod(i, cfg.rows), col |-> FloorDiv(i, cfg.rows)]

\* generateGif: row and col of sequence index i.
ExporterCell(cfg, i) ==
    IF cfg.direction = "column"
    THEN [row |-> JsMod(i, cfg.rows), col |-> FloorDiv(i, cfg.rows)]
    ELSE [row |-> FloorDiv(i, cfg.cols), col |-> JsMod(i, cfg.cols)]

\* generateGif: the safety check that skips a frame.
ExporterSkips(cfg, cell) == cell.row >= cfg.rows \/ cell.col >= cfg.cols

\* PreviewPlayer.animate: row and col drawn for frameIndex.
PreviewCell(cfg, frameIndex) ==
    IF cfg.direction = "column"
    THEN [row |-> JsMod(frameIndex, cfg.rows), col |-> FloorDiv(frameIndex, cfg.rows)]
    ELSE [row |-> FloorDiv(frameIndex, cfg.cols), col |-> JsMod(frameIndex, cfg.cols)]

\* SequenceIndex with the column-major stride taken from cols instead of rows.
SequenceIndexColsStride(cfg, visualRow, visualCol) ==
    IF cfg.direction = "column"
    THEN visualCol * cfg.cols + visualRow
    ELSE visualRow * cfg.cols + visualCol

\* renderGridOverlay: sequence index of the cell at a visual position.
SequenceIndex(cfg, visualRow, visualCol) ==
    IF cfg.direction = "column"
    THEN visualCol * cfg.rows + visualRow
    ELSE visualRow * cfg.cols + visualCol

\* IsActive with the comparison off by one.
IsActiveInclusive(cfg, sequenceIndex) == sequenceIndex <= cfg.totalFrames

\* renderGridOverlay: is the cell with this sequence index drawn active?
IsActive(cfg, sequenceIndex) == sequenceIndex < cfg.totalFrames

\* renderGridOverlay: the cells it renders, one per i in [0, rows*cols), in
\* visual reading order (none when it returns null).
OverlayCells(url, cfg) ==
    IF url = Null \/ cfg.cols <= 0 \/ cfg.rows <= 0
    THEN {}
    ELSE { [i |-> i,
            visualRow |-> FloorDiv(i, cfg.cols),
            visualCol |-> JsMod(i, cfg.cols),
            sequenceIndex |-> SequenceIndex(cfg, FloorDiv(i, cfg.cols), JsMod(i, cfg.cols)),
            isActive |-> IsActive(cfg,
                            SequenceIndex(cfg, FloorDiv(i, cfg.cols), JsMod(i, cfg.cols)))]
           : i \in 0 .. (cfg.rows * cfg.cols - 1) }

(***************************************************************************)
(* generateGif: frame geometry and the frames handed to the encoder.       *)
(***************************************************************************)
FrameWidth(cfg, dims) == Quot(dims.width, cfg.cols)

FrameHeight(cfg, dims) == Quot(dims.height, cfg.rows)

\* Delay rounded to whole milliseconds.
DelayRounded(cfg) == Quot(RoundQuot(1000, cfg.fps), 1)

\* const delay = 1000 / config.fps
Delay(cfg) == Quot(1000, cfg.fps)

\* CanvasWidth without the export scale.
CanvasWidthUnscaled(cfg, dims) == Truncate(FrameWidth(cfg, dims))

\* canvas.width and canvas.height
CanvasWidth(cfg, dims) == Truncate(Times(FrameWidth(cfg, dims), cfg.scale))

CanvasHeight(cfg, dims) == Truncate(Times(FrameHeight(cfg, dims), cfg.scale))

\* addFrame without the copy option.
CopyOptionOff == FALSE

\* gif.addFrame(ctx, { copy: true, delay: delay })
CopyOption == TRUE

\* One loop iteration that is not skipped: the drawImage source rectangle,
\* the canvas it is scaled onto and the addFrame options.
Frame(cfg, dims, i) ==
    LET cell == ExporterCell(cfg, i) IN
    [index |-> i, row |-> cell.row, col |-> cell.col,
     sx |-> Times(FrameWidth(cfg, dims), cell.col),
     sy |-> Times(FrameHeight(cfg, dims), cell.row),
     sw |-> FrameWidth(cfg, dims),
     sh |-> FrameHeight(cfg, dims),
     width |-> CanvasWidth(cfg, dims),
     height |-> CanvasHeight(cfg, dims),
     keyed |-> cfg.autoTransparent,
     copy |-> CopyOption,
     delay |-> Delay(cfg)]

\* The loop for (let i = 0; i < config.totalFrames; i++) from index i on:
\* the addFrame calls in the order they are made.
RECURSIVE AddedFrames(_, _, _)
AddedFrames(cfg, dims, i) ==
    IF i >= cfg.totalFrames
    THEN <<>>
    ELSE IF ExporterSkips(cfg, ExporterCell(cfg, i))
         THEN AddedFrames(cfg, dims, i + 1)
         ELSE <<Frame(cfg, dims, i)>> \o AddedFrames(cfg, dims, i + 1)

\* What the one canvas of generateGif shows after the n-th addFrame: the
\* fill or clear and the drawImage of that iteration cover the whole
\* canvas, so it shows the cell of that iteration alone.
CanvasAfter(frames, n) ==
    [row |-> frames[n].row, col |-> frames[n].col, keyed |-> frames[n].keyed]

\* The pixels the encoder holds for each added frame once the loop is over
\* and render() is called. With copy the encoder reads the context's image
\* data inside addFrame; without it the encoder keeps the context and
\* reads it when it renders, after the last iteration.
HeldByEncoder(frames) ==
    [n \in 1 .. Len(frames) |->
        IF frames[n].copy
        THEN CanvasAfter(frames, n)
        ELSE CanvasAfter(frames, Len(frames))]

(***************************************************************************)
(* applyChromaKey.                                                         *)
(***************************************************************************)
\* KEY_COLOR_RGB, written with alpha 255.
KeyPixel == [r |-> 255, g |-> 0, b |-> 255, a |-> 255]

\* A tolerance one level wider.
toleranceWider == 20 + 1

\* const tolerance = 20
tolerance == 20

\* IsBackground with the tolerance itself counted as a match.
IsBackgroundInclusive(px, rBg, gBg, bBg) ==
    \/ /\ Abs(px.r - rBg) <= tolerance
       /\ Abs(px.g - gBg) <= tolerance
       /\ Abs(px.b - bBg) <= tolerance
    \/ px.a < 10

\* The test of the loop body: the pixel matches the background reference
\* or is already transparent.
IsBackground(px, rBg, gBg, bBg) ==
    \/ /\ Abs(px.r - rBg) < tolerance
       /\ Abs(px.g - gBg) < tolerance
       /\ Abs(px.b - bBg) < tolerance
    \/ px.a < 10

\* for (let i = 0; i < data.length; i += 4) from pixel i on, rewriting d in
\* place.
RECURSIVE ChromaLoop(_, _, _, _, _)
ChromaLoop(d, i, rBg, gBg, bBg) ==
    IF i > Len(d)
    THEN d
    ELSE ChromaLoop(IF IsBackground(d[i], rBg, gBg, bBg)
                    THEN [d EXCEPT ![i] = KeyPixel]
                    ELSE d,
                    i + 1, rBg, gBg, bBg)

\* applyChromaKey: the buffer put back by putImageData. The reference is
\* sampled from the top-left pixel before the loop runs.
ApplyChromaKey(d) == ChromaLoop(d, 1, d[1].r, d[1].g, d[1].b)

\* getImageData(0, 0, width, height) throws an IndexSizeError for an empty
\* rectangle, so generateGif throws in its first keyed frame.
GenerateGifThrows(cfg, dims) ==
    /\ cfg.autoTransparent
    /\ AddedFrames(cfg, dims, 0) # <<>>
    /\ (CanvasWidth(cfg, dims) = 0 \/ CanvasHeight(cfg, dims) = 0)

(***************************************************************************)
(* Inputs of the user interface.                                           *)
(***************************************************************************)
\* What parseInt reads from the Rows and Cols number inputs: an integer, or
\* NaN for an empty field.
NaN == [isNaN |-> TRUE, value |-> 0]

Number(n) == [isNaN |-> FALSE, value |-> n]

\* The values the model types while exports run (Spec) ...
DimInputs == { Number(n) : n \in 2 .. MaxDim }

\* ... and while only the grid is edited (SpecGrid).
GridDimInputs == {NaN} \cup { Number(n) : n \in (0 - 1) .. MaxDim }

\* parseInt(e.target.value) || 1
ParseIntOr1(v) == IF v.isNaN \/ v.value = 0 THEN 1 ELSE v.value

\* Positions of the frames slider: min 1, max rows * cols.
SliderValues(cfg) == 1 .. (cfg.rows * cfg.cols)

\* Positions of the fps slider (min 1, max 60) that the model moves it to.
FpsInputs == {10, 12}

\* The export scale buttons the model presses, among [1, 2, 4].
ScaleInputs == {1, 2}

\* Answers of the analysis service: rows, cols and totalFrames.
DetectResults ==
    { [rows |-> r, cols |-> c, totalFrames |-> t] :
        r \in 1 .. MaxDim, c \in 1 .. MaxDim, t \in {1, MaxDim * MaxDim + 1} }

(***************************************************************************)
(* PreviewPlayer.                                                          *)
(***************************************************************************)
\* useState(true), useState(0) and requestRef with no frame requested. The
\* other fields are history: whether animate has drawn; the config on
\* screen at the latest pause, kept when the player was then displaying the
\* frame of the clock (a sequence of at most one config); and the time at
\* which playback was resumed under that same config, while it has not
\* drawn since (-1 otherwise). closure holds what the pending callback
\* captured (a sequence of at most one closure); cell is the cell of the
\* latest draw and flip changes with every draw. stale: a render was
\* committed and its effect has not run yet.
InitialPreview ==
    [isPlaying |-> TRUE, currentFrame |-> 0, request |-> FALSE,
     drawn |-> FALSE, pausedConfig |-> <<>>, resumedAt |-> 0 - 1,
     closure |-> <<>>, cell |-> [row |-> 0, col |-> 0], flip |-> FALSE,
     stale |-> FALSE]

\* Milliseconds between two readings of the animation clock.
TickMs == 120

\* A cancelAnimationFrame that cancels nothing.
CancelAnimationFrameKeeps(request) == request

\* The effect's cleanup, cancelAnimationFrame(requestRef.current): is a
\* callback still pending afterwards?
CancelAnimationFrame(request) == FALSE

\* The effect returns early: if (!imageUrl || !canvasRef.current ||
\* dimensions.width === 0) return. The canvas is mounted whenever imageUrl
\* is set.
EffectReturnsEarly(url, dims) == url = Null \/ dims.width = 0

\* What the animate function defined by one run of the effect captures:
\* the imageUrl, config and dimensions of the render the effect belongs to.
Closure(url, cfg, dims) ==
    [imageUrl |-> url, config |-> cfg, dimensions |-> dims]

\* PreviewEffect without the cleanup of the previous run.
PreviewEffectNoCleanup(url, cfg, dims, pv) ==
    LET requests == ~EffectReturnsEarly(url, dims) /\ pv.isPlaying IN
    [pv EXCEPT !.request = pv.request \/ requests,
               !.closure = IF requests THEN <<Closure(url, cfg, dims)>> ELSE @,
               !.stale = FALSE]

\* The effect of [imageUrl, config, dimensions, isPlaying] run again after
\* one of them changed: the cleanup of the previous run, then a frame is
\* requested for the new animate if the player is playing.
PreviewEffect(url, cfg, dims, pv) ==
    LET requests == ~EffectReturnsEarly(url, dims) /\ pv.isPlaying
        kept == CancelAnimationFrame(pv.request)
    IN  [pv EXCEPT !.request = kept \/ requests,
                   !.closure = IF requests THEN <<Closure(url, cfg, dims)>>
                               ELSE IF kept THEN @ ELSE <<>>,
                   !.stale = FALSE]

\* The preview after a render was committed. useEffect is a passive
\* effect: for a state update made in a click, input or change handler
\* React runs it within the event, before any animation frame
\* (PreviewEffect); for an update made elsewhere (a FileReader or image
\* load callback, a resolved promise) React may let the browser deliver
\* the pending animation frame and paint before it runs the effect.
PreviewCommitted(url, cfg, dims, pv) ==
    {PreviewEffect(url, cfg, dims, pv)}
        \cup (IF pv.request THEN {[pv EXCEPT !.stale = TRUE]} ELSE {})

\* const frameIndex = Math.floor(time / frameInterval) % totalFrames, with
\* frameInterval = 1000 / config.fps.
FrameIndex(cfg, time) == JsMod(FloorDiv(time * cfg.fps, 1000), cfg.totalFrames)

\* The play/pause button: onClick={() => setIsPlaying(!isPlaying)}, and the
\* effect run again for the new isPlaying.
togglePlay ==
    /\ ~preview.stale
    /\ imageUrl # Null
    /\ preview' =
          PreviewEffect(imageUrl, config, dimensions,
              [preview EXCEPT
                 !.isPlaying = ~preview.isPlaying,
                 !.pausedConfig =
                     IF preview.isPlaying
                     THEN (IF preview.drawn
                              /\ preview.currentFrame = FrameIndex(config, now)
                           THEN <<config>> ELSE <<>>)
                     ELSE @,
                 !.resumedAt =
                     IF ~preview.isPlaying /\ preview.pausedConfig = <<config>>
                     THEN now ELSE 0 - 1])
    /\ UNCHANGED <<retry, config, imageUrl, dimensions, processingState, savedGifs,
                   exports, detects, resetTimers, uiInFlight, data, passes,
                   genConfig, generations, now>>

\* The requested animation frame is delivered: animate(time) sets
\* currentFrame, draws the cell and, isPlaying being true in the closure
\* that requested it, requests the next frame. config is the one animate
\* captured.
animate ==
    /\ preview.request
    /\ LET cfg == preview.closure[1].config
           frameIndex == FrameIndex(cfg, now)
       IN  preview' = [preview EXCEPT !.currentFrame = frameIndex,
                                      !.cell = PreviewCell(cfg, frameIndex),
                                      !.request = TRUE,
                                      !.drawn = TRUE,
                                      !.flip = ~@,
                                      !.resumedAt = 0 - 1]
    /\ UNCHANGED <<retry, config, imageUrl, dimensions, processingState, savedGifs,
                   exports, detects, resetTimers, uiInFlight, data, passes,
                   genConfig, generations, now>>

\* React runs the effect of the committed render.
passiveEffects ==
    /\ preview.stale
    /\ preview' = PreviewEffect(imageUrl, config, dimensions, preview)
    /\ UNCHANGED <<retry, config, imageUrl, dimensions, processingState, savedGifs,
                   exports, detects, resetTimers, uiInFlight, data, passes,
                   genConfig, generations, now>>

\* Time passes; an effect waits for less than one reading of the clock.
tick ==
    /\ ~preview.stale
    /\ now + TickMs <= MaxNow
    /\ now' = now + TickMs
    /\ UNCHANGED <<retry, config, imageUrl, dimensions, processingState, savedGifs,
                   exports, detects, resetTimers, uiInFlight, data, passes,
                   genConfig, generations, preview>>

(***************************************************************************)
(* Handlers of the application.                                            *)
(***************************************************************************)
\* A handler run by a user event: the model bounds how many of them run
\* while an export is in flight. An effect waits a few milliseconds at
\* most: the next event of the user or of the network comes after it.
UiEvent ==
    /\ ~preview.stale
    /\ exports # <<>> => uiInFlight < MaxUiInFlight
    /\ uiInFlight' = IF exports = <<>> THEN 0 ELSE uiInFlight + 1

\* An updateConfig that sets totalFrames to rows * cols on every change of
\* rows or cols.
UpdatedConfigAlwaysCoupled(prev, key, value) ==
    LET next == [prev EXCEPT ![key] = value] IN
    IF key \in {"rows", "cols"}
    THEN [next EXCEPT !.totalFrames = next.rows * next.cols]
    ELSE next

\* setConfig(prev => ...) of updateConfig.
UpdatedConfig(prev, key, value) ==
    LET next == [prev EXCEPT ![key] = value] IN
    IF key \in {"rows", "cols"} /\ prev.totalFrames = prev.rows * prev.cols
    THEN [next EXCEPT !.totalFrames = next.rows * next.cols]
    ELSE next

updateConfig(key, value) ==
    /\ UiEvent
    /\ config' = UpdatedConfig(config, key, value)
    /\ preview' = PreviewEffect(imageUrl, config', dimensions, preview)
    /\ UNCHANGED <<retry, imageUrl, dimensions, processingState, savedGifs, exports,
                   detects, resetTimers, data, passes, genConfig,
                   generations, now>>

\* handleFileChange(e, 'main'): the FileReader's onload callback.
handleFileChange(img) ==
    /\ UiEvent
    /\ imageUrl' = img
    /\ processingState' = Idle
    /\ config' = [INITIAL_CONFIG EXCEPT !.scale = 1]
    /\ preview' \in PreviewCommitted(img, config', dimensions, preview)
    /\ UNCHANGED <<retry, dimensions, savedGifs, exports, detects, resetTimers, data, passes, genConfig,
                   generations, now>>

\* SpriteCanvas.handleImageLoad -> onDimensionsLoaded = setDimensions: the
\* load event of the displayed <img>, pending while the size it reports is
\* not yet in `dimensions`.
handleImageLoad ==
    /\ ~preview.stale
    /\ imageUrl # Null
    /\ dimensions # NaturalSize(imageUrl)
    /\ dimensions' = NaturalSize(imageUrl)
    /\ preview' \in PreviewCommitted(imageUrl, config, NaturalSize(imageUrl), preview)
    /\ UNCHANGED <<retry, config, imageUrl, processingState, savedGifs, exports,
                   detects, resetTimers, uiInFlight, data, passes, genConfig,
                   generations, now>>

\* handleAutoDetect up to its await.
handleAutoDetect ==
    /\ UiEvent
    /\ imageUrl # Null
    /\ detects < MaxDetects
    /\ detects' = detects + 1
    /\ processingState' = [status |-> "analyzing", progress |-> 0, error |-> Null]
    /\ UNCHANGED <<retry, config, imageUrl, dimensions, savedGifs, exports, resetTimers,
                   data, passes, genConfig,
                   generations, preview, now>>

\* handleAutoDetect after analyzeSpriteSheet resolved with `result`.
autoDetectResolved(result) ==
    /\ ~preview.stale
    /\ detects > 0
    /\ detects' = detects - 1
    /\ config' = [config EXCEPT !.rows = result.rows,
                                !.cols = result.cols,
                                !.totalFrames = result.totalFrames]
    /\ processingState' = Idle
    /\ preview' \in PreviewCommitted(imageUrl, config', dimensions, preview)
    /\ UNCHANGED <<retry, imageUrl, dimensions, savedGifs, exports, resetTimers,
                   uiInFlight, data, passes, genConfig,
                   generations, now>>

\* handleAutoDetect after analyzeSpriteSheet rejected.
autoDetectRejected ==
    /\ detects > 0
    /\ detects' = detects - 1
    /\ processingState' = [status |-> "idle", progress |-> 0,
                           error |-> "AI detection failed. Please set manually."]
    /\ UNCHANGED <<retry, config, imageUrl, dimensions, savedGifs, exports, resetTimers,
                   uiInFlight, data, passes, genConfig,
                   generations, preview, now>>

\* The EXPORT GIF button: disabled={!imageUrl || processingState.status ===
\* 'rendering'}.
ExportDisabled == imageUrl = Null \/ processingState.status = "rendering"

\* handleFileChange(e, 'template') and handleFileChange(e, 'character'): the
\* FileReader's onload callback stores the image in genConfig.
handleFileChangeGen(target, img) ==
    /\ UiEvent
    /\ genConfig' = [genConfig EXCEPT ![target] = img]
    /\ UNCHANGED <<retry, config, imageUrl, dimensions, processingState, savedGifs,
                   exports, detects, resetTimers, data, passes, generations,
                   preview, now>>

\* The Template / Action mode buttons and the action prompt field.
setGenConfig(key, value) ==
    /\ UiEvent
    /\ genConfig' = [genConfig EXCEPT ![key] = value]
    /\ UNCHANGED <<retry, config, imageUrl, dimensions, processingState, savedGifs,
                   exports, detects, resetTimers, data, passes, generations,
                   preview, now>>

handleLoadTemplateToCanvas ==
    /\ UiEvent
    /\ genConfig.templateImage # Null
    /\ imageUrl' = genConfig.templateImage
    /\ config' = [INITIAL_CONFIG EXCEPT !.scale = 1]
    /\ processingState' = Idle
    /\ preview' = PreviewEffect(genConfig.templateImage, config', dimensions, preview)
    /\ UNCHANGED <<retry, dimensions, savedGifs, exports, detects, resetTimers, data,
                   passes, genConfig, generations, now>>

\* The early returns of handleGenerateSprite, which are also what disables
\* the REPLICATE / CREATE button.
GenerateInputsMissing ==
    IF genConfig.mode = "template"
    THEN genConfig.templateImage = Null \/ genConfig.characterImage = Null
    ELSE genConfig.characterImage = Null \/ genConfig.actionPrompt = ""

\* handleGenerateSprite up to the await of the generation service, an API
\* key being selected.
handleGenerateSprite ==
    /\ UiEvent
    /\ processingState.status # "generating"
    /\ ~GenerateInputsMissing
    /\ generations < MaxGenerations
    /\ generations' = generations + 1
    /\ processingState' = [status |-> "generating", progress |-> 0, error |-> Null]
    /\ UNCHANGED <<retry, config, imageUrl, dimensions, savedGifs, exports, detects,
                   resetTimers, data, passes, genConfig, preview, now>>

\* handleGenerateSprite after the service resolved with a sprite sheet:
\* setImageUrl(resultBase64) and the status, nothing else.
generateSpriteResolved(resultBase64) ==
    /\ ~preview.stale
    /\ generations > 0
    /\ generations' = generations - 1
    /\ imageUrl' = resultBase64
    /\ processingState' = Idle
    /\ preview' \in PreviewCommitted(resultBase64, config, dimensions, preview)
    /\ UNCHANGED <<retry, config, dimensions, savedGifs, exports, detects, resetTimers,
                   uiInFlight, data, passes, genConfig, now>>

\* handleGenerateSprite after the service rejected.
generateSpriteRejected(errorMessage) ==
    /\ generations > 0
    /\ generations' = generations - 1
    /\ processingState' = [status |-> "idle", progress |-> 0, error |-> errorMessage]
    /\ UNCHANGED <<retry, config, imageUrl, dimensions, savedGifs, exports, detects,
                   resetTimers, uiInFlight, data, passes, genConfig, preview, now>>

\* handleExport up to its first await: the click on EXPORT GIF. The closure
\* keeps the image, config and dimensions of the render the click happened
\* in. finishedFrames counts the encoder's finished frames and pct is the
\* latest value handed to onProgress. limit bounds the exports of one
\* behaviour.
handleExportUpTo(limit) ==
    /\ ~preview.stale
    /\ ~ExportDisabled
    /\ imageUrl # Null
    /\ Len(exports) + Len(savedGifs) < limit
    /\ processingState' = [status |-> "rendering", progress |-> 0, error |-> Null]
    /\ exports' = Append(exports,
                         [pc |-> "decoding", image |-> imageUrl, config |-> config,
                          dimensions |-> dimensions, frames |-> <<>>,
                          held |-> <<>>, finishedFrames |-> 0, pct |-> 0])
    /\ uiInFlight' = IF exports = <<>> THEN 0 ELSE uiInFlight
    /\ UNCHANGED <<retry, config, imageUrl, dimensions, savedGifs, detects, resetTimers,
                   data, passes, genConfig,
                   generations, preview, now>>

handleExport == handleExportUpTo(MaxExports)

RemoveAt(seq, k) == SubSeq(seq, 1, k - 1) \o SubSeq(seq, k + 1, Len(seq))

\* A generateGif that reads the config on screen when it runs.
ConfigArgumentLive(job) == config

\* The `config` argument of generateGif(img, config, dimensions, ...): the
\* value the closure of handleExport holds.
ConfigArgument(job) == job.config

\* generateGif once img.decode() and the worker fetch have resolved: the
\* promise executor adds every frame and calls gif.render().
generateGif(k) ==
    /\ k \in 1 .. Len(exports)
    /\ exports[k].pc = "decoding"
    /\ ~GenerateGifThrows(ConfigArgument(exports[k]), exports[k].dimensions)
    /\ LET frames == AddedFrames(ConfigArgument(exports[k]),
                                 exports[k].dimensions, 0)
       IN  exports' = [exports EXCEPT ![k].pc = "encoding",
                                      ![k].frames = frames,
                                      ![k].held = HeldByEncoder(frames)]
    /\ UNCHANGED <<retry, config, imageUrl, dimensions, processingState, savedGifs,
                   detects, resetTimers, uiInFlight, data, passes, genConfig,
                   generations, preview, now>>

\* The promise executor throws: generateGif rejects and handleExport's
\* catch reports the failure.
generateGifThrew(k) ==
    /\ k \in 1 .. Len(exports)
    /\ exports[k].pc = "decoding"
    /\ GenerateGifThrows(ConfigArgument(exports[k]), exports[k].dimensions)
    /\ exports' = RemoveAt(exports, k)
    /\ processingState' = [status |-> "idle", progress |-> 0,
                           error |-> "Failed to generate GIF."]
    /\ uiInFlight' = IF Len(exports) = 1 THEN 0 ELSE uiInFlight
    /\ UNCHANGED <<retry, config, imageUrl, dimensions, savedGifs, detects, resetTimers,
                   data, passes, genConfig,
                   generations, preview, now>>

\* onProgress(Math.round(p * 100)) for p = finished / total.
Percent(finished, total) == RoundQuot(100 * finished, total)

\* The encoder finished one more frame and emits 'progress' with the
\* fraction of frames finished (gif.js: finishedFrames / frames.length); the
\* handler calls onProgress, which is setProcessingState(prev => ({ ...prev,
\* progress: pct })).
encoderProgress(k) ==
    /\ k \in 1 .. Len(exports)
    /\ exports[k].pc = "encoding"
    /\ exports[k].finishedFrames < Len(exports[k].frames)
    /\ LET pct == Percent(exports[k].finishedFrames + 1, Len(exports[k].frames)) IN
       /\ exports' = [exports EXCEPT ![k].finishedFrames = @ + 1, ![k].pct = pct]
       /\ processingState' = [processingState EXCEPT !.progress = pct]
    /\ UNCHANGED <<retry, config, imageUrl, dimensions, savedGifs, detects, resetTimers,
                   uiInFlight, data, passes, genConfig, generations, preview, now>>

\* The encoder fails or aborts after render(): generateGif listens to
\* 'progress' and 'finished' only and never calls reject after render(), so
\* no code of the export runs and its promise stays pending.
encoderFailed(k) ==
    /\ k \in 1 .. Len(exports)
    /\ exports[k].pc = "encoding"
    /\ exports' = [exports EXCEPT ![k].pc = "aborted"]
    /\ UNCHANGED <<retry, config, imageUrl, dimensions, processingState, savedGifs,
                   detects, resetTimers, uiInFlight, data, passes, genConfig,
                   generations, preview, now>>

\* A history that keeps the latest export only.
NewHistoryReplacing(newGif, prev) == <<newGif>>

\* setSavedGifs(prev => [newGif, ...prev])
NewHistory(newGif, prev) == <<newGif>> \o prev

\* The encoder's 'finished' event, emitted once every frame is finished,
\* resolves generateGif and handleExport runs on: download, savedGifs,
\* status 'completed', the 2 s timer.
exportFinished(k) ==
    /\ k \in 1 .. Len(exports)
    /\ exports[k].pc = "encoding"
    /\ exports[k].finishedFrames = Len(exports[k].frames)
    /\ savedGifs' = NewHistory([id |-> Len(savedGifs) + 1,
                                image |-> exports[k].image,
                                dimensions |-> NaturalSize(exports[k].image)],
                               savedGifs)
    /\ processingState' = [status |-> "completed", progress |-> 100, error |-> Null]
    /\ resetTimers' = resetTimers + 1
    /\ exports' = RemoveAt(exports, k)
    /\ uiInFlight' = IF Len(exports) = 1 THEN 0 ELSE uiInFlight
    /\ UNCHANGED <<retry, config, imageUrl, dimensions, detects, data, passes, genConfig,
                   generations, preview, now>>

\* setTimeout(() => setProcessingState({ status: 'idle', progress: 0 }), 2000)
resetTimerFired ==
    /\ resetTimers > 0
    /\ resetTimers' = resetTimers - 1
    /\ processingState' = Idle
    /\ UNCHANGED <<retry, config, imageUrl, dimensions, savedGifs, exports, detects,
                   uiInFlight, data, passes, genConfig,
                   generations, preview, now>>

(***************************************************************************)
(* retryOperation(operation, retries = 3, delay = 1000) of gifBuilder.ts,  *)
(* the wrapper of the two calls of the generation service. An error is a   *)
(* record of the fields the catch block reads; a field that is undefined   *)
(* is the empty sequence, a message is its sequence of characters.         *)
(***************************************************************************)
DefaultRetries == 3

DefaultDelay == 1000

OverloadedText == <<"o", "v", "e", "r", "l", "o", "a", "d", "e", "d">>

\* String.prototype.includes
Includes(text, searched) ==
    \E i \in 0 .. (Len(text) - Len(searched)) :
        SubSeq(text, i + 1, i + Len(searched)) = searched

\* The errors the operation rejects with.
OperationErrors ==
    { [status |-> <<503>>, code |-> <<>>, message |-> <<"b", "u", "s", "y">>],
      [status |-> <<>>, code |-> <<503>>, message |-> <<>>],
      [status |-> <<>>, code |-> <<>>,
       message |-> <<"i", "s", " ">> \o OverloadedText \o <<".">>],
      [status |-> <<500>>, code |-> <<>>,
       message |-> <<"O", "v", "e", "r", "l", "o", "a", "d", "e", "d">>],
      [status |-> <<429>>, code |-> <<429>>,
       message |-> <<"q", "u", "o", "t", "a">>],
      [status |-> <<>>, code |-> <<>>, message |-> <<>>] }

\* The values the operation resolves with.
OperationResults == {"sheetG"}

\* A wrapper that tries again while `retries` is not negative.
RetriesLeftInclusive(retries) == retries >= 0

\* retries > 0
RetriesLeft(retries) == retries > 0

\* const isOverloaded = error.status === 503 || error.code === 503 ||
\*                      (error.message && error.message.includes('overloaded'))
IsOverloaded(error) ==
    \/ error.status = <<503>>
    \/ error.code = <<503>>
    \/ (error.message # <<>> /\ Includes(error.message, OverloadedText))

NotCalled ==
    [pc |-> "idle", retries |-> DefaultRetries, delay |-> DefaultDelay,
     calls |-> 0, waits |-> <<>>, errors |-> <<>>, returned |-> <<>>,
     thrown |-> <<>>]

\* A caller invokes retryOperation(() => ...) with the default arguments;
\* the first frame calls operation() and awaits it.
callRetryOperation ==
    /\ retry.pc = "idle"
    /\ retry' = [retry EXCEPT !.pc = "awaiting", !.calls = 1]
    /\ UNCHANGED <<config, imageUrl, dimensions, processingState, savedGifs,
                   exports, detects, resetTimers, uiInFlight, data, passes,
                   genConfig, generations, preview, now>>

\* operation() resolves: `return await operation()`, and every enclosing
\* frame returns the same value.
operationResolved(value) ==
    /\ retry.pc = "awaiting"
    /\ retry' = [retry EXCEPT !.pc = "returned", !.returned = <<value>>]
    /\ UNCHANGED <<config, imageUrl, dimensions, processingState, savedGifs,
                   exports, detects, resetTimers, uiInFlight, data, passes,
                   genConfig, generations, preview, now>>

\* operation() rejects: the catch block either starts sleep(delay) or
\* throws the error, which every enclosing frame passes on.
operationRejected(error) ==
    /\ retry.pc = "awaiting"
    /\ retry' = IF RetriesLeft(retry.retries) /\ IsOverloaded(error)
                 THEN [retry EXCEPT !.pc = "sleeping",
                                    !.errors = Append(@, error),
                                    !.waits = Append(@, retry.delay)]
                 ELSE [retry EXCEPT !.pc = "thrown",
                                    !.errors = Append(@, error),
                                    !.thrown = <<error>>]
    /\ UNCHANGED <<config, imageUrl, dimensions, processingState, savedGifs,
                   exports, detects, resetTimers, uiInFlight, data, passes,
                   genConfig, generations, preview, now>>

\* sleep(delay) is over: retryOperation(operation, retries - 1, delay * 2)
\* calls operation() again.
sleepElapsed ==
    /\ retry.pc = "sleeping"
    /\ retry' = [retry EXCEPT !.pc = "awaiting",
                               !.retries = @ - 1,
                               !.delay = @ * 2,
                               !.calls = @ + 1]
    /\ UNCHANGED <<config, imageUrl, dimensions, processingState, savedGifs,
                   exports, detects, resetTimers, uiInFlight, data, passes,
                   genConfig, generations, preview, now>>

(***************************************************************************)
(* The application.                                                        *)
(***************************************************************************)
InitApp ==
    /\ config = INITIAL_CONFIG
    /\ imageUrl = Null
    /\ dimensions = NoDimensions
    /\ processingState = Idle
    /\ savedGifs = <<>>
    /\ exports = <<>>
    /\ detects = 0
    /\ resetTimers = 0
    /\ uiInFlight = 0
    /\ genConfig = InitialGenConfig
    /\ generations = 0
    /\ preview = InitialPreview
    /\ now = 0
    /\ retry = NotCalled

Init ==
    /\ InitApp
    /\ data = <<>>
    /\ passes = <<>>

\* The controls of the Config panel.
rowsInput(v) == updateConfig("rows", ParseIntOr1(v))

colsInput(v) == updateConfig("cols", ParseIntOr1(v))

framesSlider(v) ==
    /\ v \in SliderValues(config)
    /\ updateConfig("totalFrames", v)

directionButton(v) == updateConfig("direction", v)

fpsSlider(v) == updateConfig("fps", v)

scaleButton(v) == updateConfig("scale", v)

transparentCheckbox(v) == updateConfig("autoTransparent", v)

Next ==
    \/ \E v \in DimInputs : rowsInput(v)
    \/ \E v \in DimInputs : colsInput(v)
    \/ \E v \in (config.rows * config.cols - MaxSliderDrop) .. (config.rows * config.cols) :
          framesSlider(v)
    \/ \E v \in {"row", "column"} : directionButton(v)
    \/ \E v \in FpsInputs : fpsSlider(v)
    \/ \E v \in ScaleInputs : scaleButton(v)
    \/ \E v \in BOOLEAN : transparentCheckbox(v)
    \/ \E img \in ExportImages : handleFileChange(img)
    \/ handleImageLoad
    \/ handleExport
    \/ \E k \in 1 .. Len(exports) : generateGif(k)
    \/ \E k \in 1 .. Len(exports) : generateGifThrew(k)
    \/ \E k \in 1 .. Len(exports) : encoderProgress(k)
    \/ \E k \in 1 .. Len(exports) : encoderFailed(k)
    \/ \E k \in 1 .. Len(exports) : exportFinished(k)
    \/ resetTimerFired
    \/ passiveEffects

Spec == Init /\ [][Next]_vars

(***************************************************************************)
(* The grid configuration alone: every value of the inputs, the frames     *)
(* slider over its whole range, image loads and auto-detect; no export.    *)
(***************************************************************************)
NextGrid ==
    \/ \E v \in GridDimInputs : rowsInput(v)
    \/ \E v \in GridDimInputs : colsInput(v)
    \/ \E v \in SliderValues(config) : framesSlider(v)
    \/ \E v \in {"row", "column"} : directionButton(v)
    \/ \E img \in Images : handleFileChange(img)
    \/ handleImageLoad
    \/ handleAutoDetect
    \/ \E result \in DetectResults : autoDetectResolved(result)
    \/ autoDetectRejected
    \/ passiveEffects

SpecGrid == Init /\ [][NextGrid]_vars

(***************************************************************************)
(* The sources of the image on the canvas: upload, template load and       *)
(* sprite generation, with the grid inputs.                                *)
(***************************************************************************)
NextImages ==
    \/ \E v \in DimInputs : rowsInput(v)
    \/ \E v \in DimInputs : colsInput(v)
    \/ \E img \in Images : handleFileChange(img)
    \/ \E img \in TemplateImages : handleFileChangeGen("templateImage", img)
    \/ \E img \in CharacterImages : handleFileChangeGen("characterImage", img)
    \/ \E v \in {"template", "action"} : setGenConfig("mode", v)
    \/ \E v \in {"", "walk"} : setGenConfig("actionPrompt", v)
    \/ handleLoadTemplateToCanvas
    \/ handleGenerateSprite
    \/ \E img \in GeneratedImages : generateSpriteResolved(img)
    \/ \E msg \in GenerationErrors : generateSpriteRejected(msg)
    \/ handleImageLoad
    \/ passiveEffects

SpecImages == Init /\ [][NextImages]_vars

(***************************************************************************)
(* The live preview: the player, the clock, image loads, the rows input,   *)
(* the frames slider near its maximum and the fps slider.                  *)
(***************************************************************************)
NextPreview ==
    \/ \E img \in Images : handleFileChange(img)
    \/ handleImageLoad
    \/ \E v \in DimInputs : rowsInput(v)
    \/ \E v \in (config.rows * config.cols - MaxSliderDrop) .. (config.rows * config.cols) :
          framesSlider(v)
    \/ \E v \in FpsInputs : fpsSlider(v)
    \/ togglePlay
    \/ animate
    \/ tick
    \/ passiveEffects

SpecPreview == Init /\ [][NextPreview]_vars

(***************************************************************************)
(* The history of exports: uploads, image loads and up to MaxHistory       *)
(* exports, with the default config.                                       *)
(***************************************************************************)
NextHistory ==
    \/ \E img \in ExportImages : handleFileChange(img)
    \/ handleImageLoad
    \/ handleExportUpTo(MaxHistory)
    \/ \E k \in 1 .. Len(exports) : generateGif(k)
    \/ \E k \in 1 .. Len(exports) : generateGifThrew(k)
    \/ \E k \in 1 .. Len(exports) : encoderProgress(k)
    \/ \E k \in 1 .. Len(exports) : encoderFailed(k)
    \/ \E k \in 1 .. Len(exports) : exportFinished(k)
    \/ resetTimerFired
    \/ passiveEffects

SpecHistory == Init /\ [][NextHistory]_vars

(***************************************************************************)
(* One call of retryOperation and the outcomes of its operation. Every     *)
(* call of the operation settles and every sleep ends: weak fairness.      *)
(***************************************************************************)
NextRetry ==
    \/ callRetryOperation
    \/ \E value \in OperationResults : operationResolved(value)
    \/ \E error \in OperationErrors : operationRejected(error)
    \/ sleepElapsed

SpecRetry == Init /\ [][NextRetry]_vars /\ WF_vars(NextRetry)

(***************************************************************************)
(* applyChromaKey on its own: a canvas buffer is read, keyed and put back, *)
(* then read and keyed again.                                              *)
(***************************************************************************)
\* Channel values of the pixels the buffers are drawn from.
RedLevels == {235, 236, 255}

GreenLevels == {0, 255}

BlueLevels == {236, 255}

AlphaLevels == {9, 10, 255}

Pixels ==
    [r : RedLevels, g : GreenLevels, b : BlueLevels, a : AlphaLevels]

Buffers == UNION { [1 .. n -> Pixels] : n \in 1 .. MaxPixels }

InitChroma ==
    /\ InitApp
    /\ data \in Buffers
    /\ passes = <<data>>

applyChromaKey ==
    /\ Len(passes) <= MaxPasses
    /\ data' = ApplyChromaKey(data)
    /\ passes' = Append(passes, data')
    /\ UNCHANGED appVars

NextChroma == applyChromaKey

SpecChroma == InitChroma /\ [][NextChroma]_vars

(***************************************************************************)
(* Properties.                                                             *)
(***************************************************************************)
\* The exports whose frames have all been handed to the encoder, before
\* the encoder has reported on any of them.
Submitted ==
    { k \in 1 .. Len(exports) :
        exports[k].pc = "encoding" /\ exports[k].finishedFrames = 0 }

CellOf(r, c) == [row |-> r, col |-> c]

\* C1: on every grid with rows >= 1 and cols >= 1, in both directions, for
\* every i in [0, rows*cols) the cell the exporter and the preview compute
\* for i is mapped back to i by the overlay's sequenceIndex, and every cell
\* (r, c) of the grid is the cell computed for its sequenceIndex: the two
\* maps are mutual inverses.
C1_RoundTrip ==
    (config.rows >= 1 /\ config.cols >= 1) =>
        /\ \A i \in 0 .. (config.rows * config.cols - 1) :
              /\ SequenceIndex(config, ExporterCell(config, i).row,
                                       ExporterCell(config, i).col) = i
              /\ SequenceIndex(config, PreviewCell(config, i).row,
                                       PreviewCell(config, i).col) = i
        /\ \A r \in 0 .. (config.rows - 1), c \in 0 .. (config.cols - 1) :
              /\ ExporterCell(config, SequenceIndex(config, r, c)) = CellOf(r, c)
              /\ PreviewCell(config, SequenceIndex(config, r, c)) = CellOf(r, c)

\* A non-square grid traversed column by column.
C1_Witness ==
    /\ config.rows = 2
    /\ config.cols = 3
    /\ config.direction = "column"

\* C2: every frame handed to the encoder for index i shows the cell
\* (i div cols, i mod cols) under 'row' and (i mod rows, i div rows) under
\* 'column'; with rows = 2 and cols = 3 index 4 is cell (1,1) under 'row'
\* and (0,2) under 'column', and index 0 is cell (0,0) under both.
C2_CellFormula ==
    \A k \in Submitted :
        LET cfg == exports[k].config
            frames == exports[k].frames
        IN  \A j \in 1 .. Len(frames) :
              LET f == frames[j] IN
              /\ cfg.direction = "row" =>
                    CellOf(f.row, f.col) = CellOf(f.index \div cfg.cols, f.index % cfg.cols)
              /\ cfg.direction = "column" =>
                    CellOf(f.row, f.col) = CellOf(f.index % cfg.rows, f.index \div cfg.rows)
              /\ f.index = 0 => CellOf(f.row, f.col) = CellOf(0, 0)
              /\ (cfg.rows = 2 /\ cfg.cols = 3 /\ f.index = 4) =>
                    CellOf(f.row, f.col) =
                        IF cfg.direction = "row" THEN CellOf(1, 1) ELSE CellOf(0, 2)

\* An export of a 2 x 3 grid in column order that has handed over index 4.
C2_Witness ==
    \E k \in Submitted :
        /\ exports[k].config.rows = 2
        /\ exports[k].config.cols = 3
        /\ exports[k].config.direction = "column"
        /\ \E j \in 1 .. Len(exports[k].frames) : exports[k].frames[j].index = 4

\* C3: for the config on screen and every sequence index i in
\* [0, totalFrames), the exporter slices a cell for frame i, the preview
\* draws that same cell for frameIndex i, and the overlay cell whose
\* sequenceIndex is i is that cell.
C3_ConsumersAgree ==
    imageUrl # Null =>
        \A i \in 0 .. (config.totalFrames - 1) :
            LET e == ExporterCell(config, i)
                p == PreviewCell(config, i)
                o == { CellOf(c.visualRow, c.visualCol) :
                         c \in { x \in OverlayCells(imageUrl, config) : x.sequenceIndex = i } }
            IN  /\ ~ExporterSkips(config, e)
                /\ e = p
                /\ o = {e}

\* C4: the overlay marks the cell at visual position (r, c) active iff its
\* sequence index under the configured direction (r*cols + c for 'row',
\* c*rows + r for 'column') is below totalFrames; when 0 <= totalFrames <=
\* rows*cols exactly totalFrames cells are active; and with rows = 4,
\* cols = 4, totalFrames = 14 and direction 'row' the inactive cells are
\* exactly those with visual index 14 and 15.
C4_ActiveCells ==
    LET cells == OverlayCells(imageUrl, config)
        active == { c \in cells : c.isActive }
    IN  /\ \A c \in cells :
              LET r == c.i \div config.cols
                  q == c.i % config.cols
              IN  c.isActive <=>
                     (IF config.direction = "row"
                      THEN r * config.cols + q
                      ELSE q * config.rows + r) < config.totalFrames
        /\ (cells # {} /\ 0 <= config.totalFrames
               /\ config.totalFrames <= config.rows * config.cols) =>
              Cardinality(active) = config.totalFrames
        /\ (cells # {} /\ config.rows = 4 /\ config.cols = 4
               /\ config.totalFrames = 14 /\ config.direction = "row") =>
              { c.i : c \in cells \ active } = {14, 15}

\* The overlay of a 4 x 4 sheet with 14 frames in row order is on screen.
C4_Witness ==
    /\ imageUrl # Null
    /\ config.rows = 4
    /\ config.cols = 4
    /\ config.totalFrames = 14
    /\ config.direction = "row"

\* C5: every export hands the encoder exactly config.totalFrames frames
\* (addFrame calls), for the config the export was started with.
C5_FrameCount ==
    \A k \in Submitted :
        Len(exports[k].frames) = exports[k].config.totalFrames

\* C6: the frames handed to the encoder are in strictly increasing
\* sequence-index order, and every sequence index in [0, totalFrames) is
\* handed over exactly once.
C6_Ordering ==
    \A k \in Submitted :
        LET frames == exports[k].frames IN
        /\ \A j \in 1 .. (Len(frames) - 1) : frames[j].index < frames[j + 1].index
        /\ \A i \in 0 .. (exports[k].config.totalFrames - 1) :
              Cardinality({ j \in 1 .. Len(frames) : frames[j].index = i }) = 1

\* C7 as claimed: every frame of an export has the same delay, and that
\* delay is the integer round(1000/fps).
C7_DelayRounded ==
    \A k \in Submitted :
        LET frames == exports[k].frames IN
        \A j \in 1 .. Len(frames) :
            /\ frames[j].delay = frames[1].delay
            /\ QuotIsInt(frames[j].delay, RoundQuot(1000, exports[k].config.fps))

\* C7 as amended: every frame of an export has the same delay, and that
\* delay is 1000/fps milliseconds, not rounded: for every fps in [1, 60] it
\* is the integer round(1000/fps) exactly when fps divides 1000.
C7_DelayExact ==
    \A k \in Submitted :
        LET frames == exports[k].frames
            cfg == exports[k].config
        IN  /\ \A j \in 1 .. Len(frames) :
                  /\ frames[j].delay = frames[1].delay
                  /\ QuotEq(frames[j].delay, Quot(1000, cfg.fps))
                  /\ QuotIsInt(frames[j].delay, RoundQuot(1000, cfg.fps))
                        <=> (1000 % cfg.fps = 0)
            /\ \A fps \in 1 .. 60 :
                  LET d == Delay([cfg EXCEPT !.fps = fps]) IN
                  /\ QuotEq(d, Quot(1000, fps))
                  /\ QuotIsInt(d, RoundQuot(1000, fps)) <=> (1000 % fps = 0)

\* An export at 12 fps has handed over several frames.
C7_Witness ==
    \E k \in Submitted :
        /\ exports[k].config.fps = 12
        /\ Len(exports[k].frames) >= 2

\* applyChromaKey has run at least twice on the buffer.
KeyedTwice == Len(passes) >= 3

\* A pixel within the tolerance of the key colour in every channel.
NearKey(px) ==
    /\ Abs(px.r - 255) < 20
    /\ Abs(px.g - 0) < 20
    /\ Abs(px.b - 255) < 20

\* C8 as claimed: applying applyChromaKey twice yields the buffer that
\* applying it once yields.
C8_Idempotent ==
    KeyedTwice => passes[3] = passes[2]

\* C8 as amended: when no pixel of the buffer with alpha >= 10 lies within
\* the tolerance of the key colour without being the key colour
\* (255,0,255,255) itself, applying applyChromaKey twice yields the buffer
\* that applying it once yields.
C8_IdempotentAwayFromKey ==
    (/\ KeyedTwice
     /\ \A k \in 1 .. Len(passes[1]) :
           (passes[1][k].a >= 10 /\ NearKey(passes[1][k])) => passes[1][k] = KeyPixel)
        => passes[3] = passes[2]

\* A buffer clear of the key colour was keyed twice; the first application
\* rewrote its corner and left another pixel as it was.
C8_Witness ==
    /\ KeyedTwice
    /\ \A k \in 1 .. Len(passes[1]) : ~NearKey(passes[1][k])
    /\ passes[2][1] # passes[1][1]
    /\ \E k \in 2 .. Len(passes[1]) : passes[2][k] = passes[1][k]

\* C9 as claimed: with the reference taken from pixel (0,0) of the input,
\* each output pixel is (255,0,255,255) if its R, G and B each differ from
\* the reference by at most 20 or its alpha is below 10, and is the input
\* pixel otherwise.
C9_RuleAtMost ==
    Len(passes) >= 2 =>
        \A k \in 1 .. Len(passes[1]) :
            LET px == passes[1][k]
                bg == passes[1][1]
            IN  passes[2][k] =
                  IF \/ /\ Abs(px.r - bg.r) <= 20
                        /\ Abs(px.g - bg.g) <= 20
                        /\ Abs(px.b - bg.b) <= 20
                     \/ px.a < 10
                  THEN KeyPixel
                  ELSE px

\* C9 as amended: with the reference taken from pixel (0,0) of the input,
\* each output pixel is (255,0,255,255) if its R, G and B each differ from
\* the reference by less than 20 or its alpha is below 10, and is the input
\* pixel otherwise.
C9_RuleBelow ==
    Len(passes) >= 2 =>
        \A k \in 1 .. Len(passes[1]) :
            LET px == passes[1][k]
                bg == passes[1][1]
            IN  passes[2][k] =
                  IF \/ /\ Abs(px.r - bg.r) < 20
                        /\ Abs(px.g - bg.g) < 20
                        /\ Abs(px.b - bg.b) < 20
                     \/ px.a < 10
                  THEN KeyPixel
                  ELSE px

\* A buffer with a pure-white corner was keyed: the corner became the key
\* colour and an opaque pixel exactly 20 away in one channel was kept.
C9_Witness ==
    /\ Len(passes) >= 2
    /\ Len(passes[1]) >= 2
    /\ passes[1][1] = [r |-> 255, g |-> 255, b |-> 255, a |-> 255]
    /\ passes[1][2] = [r |-> 235, g |-> 255, b |-> 255, a |-> 255]
    /\ passes[2][1] = KeyPixel
    /\ passes[2][2] = passes[1][2]

\* The part of C10 that holds of every export whose dimensions are
\* divisible by cols and rows: the source rectangle of each frame has
\* origin (col*frameWidth, row*frameHeight) and size (frameWidth,
\* frameHeight), lies inside the source, and is scaled onto a frame of
\* (frameWidth*scale, frameHeight*scale).
Geometry(k) ==
    LET cfg == exports[k].config
        dims == exports[k].dimensions
        frames == exports[k].frames
    IN  (frames # <<>> /\ dims.width % cfg.cols = 0 /\ dims.height % cfg.rows = 0) =>
          LET fw == dims.width \div cfg.cols
              fh == dims.height \div cfg.rows
          IN  \A j \in 1 .. Len(frames) :
                LET f == frames[j] IN
                /\ CellOf(f.row, f.col) = ExporterCell(cfg, f.index)
                /\ QuotIsInt(f.sx, f.col * fw)
                /\ QuotIsInt(f.sy, f.row * fh)
                /\ QuotIsInt(f.sw, fw)
                /\ QuotIsInt(f.sh, fh)
                /\ 0 <= f.col * fw
                /\ 0 <= f.row * fh
                /\ f.col * fw + fw <= dims.width
                /\ f.row * fh + fh <= dims.height
                /\ f.width = fw * cfg.scale
                /\ f.height = fh * cfg.scale

\* The export of the scenario: 400x400, rows = 2, cols = 2, totalFrames =
\* 4, fps = 10, scale = 2, direction 'row'.
Scenario(k) ==
    /\ exports[k].dimensions = [width |-> 400, height |-> 400]
    /\ exports[k].config.rows = 2
    /\ exports[k].config.cols = 2
    /\ exports[k].config.totalFrames = 4
    /\ exports[k].config.fps = 10
    /\ exports[k].config.scale = 2
    /\ exports[k].config.direction = "row"

\* The scenario's outcome with frames of side by side pixels: 4 frames,
\* delay 100, in cell order (0,0), (0,1), (1,0), (1,1).
ScenarioGives(k, side) ==
    LET frames == exports[k].frames IN
    /\ Len(frames) = 4
    /\ \A j \in 1 .. Len(frames) :
          /\ frames[j].width = side
          /\ frames[j].height = side
          /\ QuotIsInt(frames[j].delay, 100)
    /\ [j \in 1 .. Len(frames) |-> CellOf(frames[j].row, frames[j].col)]
          = <<CellOf(0, 0), CellOf(0, 1), CellOf(1, 0), CellOf(1, 1)>>

\* C10 as claimed: the geometry above, and the scenario gives 4 frames of
\* 200x200.
C10_Geometry200 ==
    \A k \in Submitted :
        /\ Geometry(k)
        /\ Scenario(k) => ScenarioGives(k, 200)

\* C10 as amended: the geometry above, and the scenario gives 4 frames of
\* 400x400 (a 200x200 source cell at scale 2).
C10_Geometry400 ==
    \A k \in Submitted :
        /\ Geometry(k)
        /\ Scenario(k) => ScenarioGives(k, 400)

\* The export of the scenario has handed its frames to the encoder.
C10_Witness ==
    \E k \in Submitted : Scenario(k)

\* C11: during an export the values handed to onProgress never decrease,
\* processingState.progress never decreases, the last value handed to
\* onProgress before the encoder finishes is 100, and a successful export
\* leaves progress at 100.
C11_ProgressMonotone ==
    [][/\ \A k \in 1 .. Len(exports) :
             (exports[k].pc = "encoding"
                /\ exports[k].finishedFrames = Len(exports[k].frames))
                => exports[k].pct = 100
       /\ (exports # <<>> /\ Len(exports') = Len(exports)) =>
             /\ \A k \in 1 .. Len(exports) : exports'[k].pct >= exports[k].pct
             /\ processingState'.progress >= processingState.progress
       /\ Len(savedGifs') > Len(savedGifs) => processingState'.progress = 100
      ]_vars

\* C12: the frames an export hands to the encoder, their cells, sizes and
\* delays, are those of the config that was on screen when handleExport was
\* invoked, whatever the config on screen has become since.
C12_SnapshotIsolation ==
    \A k \in Submitted :
            /\ exports[k].frames
                  = AddedFrames(exports[k].config, exports[k].dimensions, 0)
            /\ \A j \in 1 .. Len(exports[k].frames) :
                  LET f == exports[k].frames[j] IN
                  /\ f.index < exports[k].config.totalFrames
                  /\ QuotEq(f.delay, Quot(1000, exports[k].config.fps))
                  /\ f.keyed = exports[k].config.autoTransparent
                  /\ f.width = CanvasWidth(exports[k].config, exports[k].dimensions)

\* An export has handed over its frames although the config on screen,
\* edited while the export was in flight, would have given other frames.
C12_Witness ==
    \E k \in Submitted :
        /\ exports[k].config # config
        /\ exports[k].frames # <<>>
        /\ exports[k].frames # AddedFrames(config, exports[k].dimensions, 0)

\* C13: while a handleExport invocation has not settled, the export
\* trigger is disabled, and no second invocation is in flight.
C13_OneExportInFlight ==
    exports # <<>> => (ExportDisabled /\ Len(exports) <= 1)

\* C16: an export whose encoder failed after render() has settled: it is no
\* longer among the invocations in flight with its promise pending.
C16_EncoderFailureFails ==
    \A k \in 1 .. Len(exports) : exports[k].pc # "aborted"

\* C17: an export whose config has a sequence index in [0, totalFrames)
\* with a cell outside the grid fails: it never gets as far as handing its
\* remaining frames to the encoder.
C17_OutOfBoundsFails ==
    \A k \in 1 .. Len(exports) :
        exports[k].pc \in {"encoding", "aborted"} =>
            \A i \in 0 .. (exports[k].config.totalFrames - 1) :
                LET cell == ExporterCell(exports[k].config, i) IN
                cell.row < exports[k].config.rows /\ cell.col < exports[k].config.cols

\* C14: in every state the config satisfies rows >= 1, cols >= 1 and
\* 1 <= totalFrames <= rows*cols.
C14_GridSpecInvariant ==
    /\ config.rows >= 1
    /\ config.cols >= 1
    /\ 1 <= config.totalFrames
    /\ config.totalFrames <= config.rows * config.cols

\* C15: whenever the image on the canvas is replaced by another one (main
\* upload, template loaded to canvas, generated sprite sheet), the grid is
\* back at rows = 4, cols = 4, totalFrames = 16.
C15_GridReset ==
    [][imageUrl' # imageUrl =>
          (config'.rows = 4 /\ config'.cols = 4 /\ config'.totalFrames = 16)]_vars

\* C18: whenever another source image becomes the image of the preview,
\* the player is Playing, whatever was toggled before.
C18_PlayingOnNewImage ==
    [][imageUrl' # imageUrl => preview'.isPlaying]_vars

\* C19: when playback was paused while displaying the frame of the clock
\* and resumed with the config unchanged, the first frame index drawn
\* after resuming, drawn at the time of resuming, is the index displayed
\* at the pause or its successor modulo totalFrames, however long the
\* pause.
C19_ResumeContinuity ==
    [][(/\ preview.resumedAt = now
        /\ preview'.resumedAt # now
        /\ preview'.isPlaying
        /\ preview.pausedConfig = <<config>>
        /\ config' = config
        /\ now' = now)
         => preview'.currentFrame
               \in {preview.currentFrame,
                    JsMod(preview.currentFrame + 1, config.totalFrames)}]_vars

\* C20: while the player is Paused no animation callback is pending, and
\* from the step that enters Paused until the player is Playing again the
\* displayed frame index does not change, whatever time passes.
C20_PauseFreezes ==
    /\ [](~preview.isPlaying => ~preview.request)
    /\ [][~preview'.isPlaying
             => preview'.currentFrame = preview.currentFrame]_vars

\* A preview that had drawn is paused with its image loaded, and the clock
\* has moved on to a time at which a playing preview shows another frame.
C20_Witness ==
    /\ ~preview.isPlaying
    /\ preview.drawn
    /\ imageUrl # Null
    /\ dimensions.width # 0
    /\ FrameIndex(config, now) # preview.currentFrame

\* C21: every draw of the preview shows the frame index and the cell that
\* the config on screen gives for the time of the draw: after a change of
\* fps, totalFrames, direction, rows or cols is committed, no callback
\* draws from the old values.
C21_LiveConfig ==
    [][preview'.flip # preview.flip
          => /\ preview'.currentFrame = FrameIndex(config, now)
             /\ preview'.cell = PreviewCell(config, FrameIndex(config, now))]_vars

\* C22: once the cleanup of the effect has run (pause or a changed
\* dependency), no callback of the loop it cancelled is pending: a pending
\* callback belongs to the effect of the render on screen, of a playing
\* player, so no other callback can draw.
C22_CancelledLoopIsGone ==
    ~preview.stale =>
        /\ preview.request =>
              /\ preview.isPlaying
              /\ ~EffectReturnsEarly(imageUrl, dimensions)
              /\ preview.closure = <<Closure(imageUrl, config, dimensions)>>
        /\ ~preview.request => preview.closure = <<>>

\* A loop that had drawn was cancelled by a pause, and the config changed
\* afterwards.
C22_Witness ==
    /\ preview.drawn
    /\ ~preview.isPlaying
    /\ ~preview.stale
    /\ config # INITIAL_CONFIG
    /\ dimensions.width # 0

\* C24: on every animation tick the frame index lies in [0, totalFrames)
\* and the cell drawn lies inside the grid, for the config the tick
\* computes from.
C24_TickInsideGrid ==
    [][preview'.flip # preview.flip
          => LET cfg == preview.closure[1].config IN
             /\ preview'.currentFrame \in 0 .. (cfg.totalFrames - 1)
             /\ preview'.cell.row \in 0 .. (cfg.rows - 1)
             /\ preview'.cell.col \in 0 .. (cfg.cols - 1)]_vars

\* C30: whenever the player is on screen, the counter it displays,
\* currentFrame + 1 of config.totalFrames, is between 1 and totalFrames.
C30_CounterInRange ==
    imageUrl # Null =>
        (1 <= preview.currentFrame + 1
            /\ preview.currentFrame + 1 <= config.totalFrames)

\* The step is the end of a successful export: the encoder's 'finished'
\* for an export in flight.
ExportSucceeds ==
    /\ processingState'.status = "completed"
    /\ \E k \in 1 .. Len(exports) :
          exports[k].pc = "encoding" /\ exports' = RemoveAt(exports, k)

\* C23: a step that ends a successful export adds exactly one entry to
\* savedGifs, every other step (a failed export among them) adds none, and
\* the entries already there stay, unchanged and in the same order.
C23_AppendOnly ==
    [][/\ ExportSucceeds => Len(savedGifs') = Len(savedGifs) + 1
       /\ ~ExportSucceeds => savedGifs' = savedGifs
       /\ Len(savedGifs') >= Len(savedGifs)
       /\ savedGifs = SubSeq(savedGifs', Len(savedGifs') - Len(savedGifs) + 1,
                             Len(savedGifs'))]_vars

\* Two exports succeeded: the history holds the later one before the
\* earlier one.
C23_Witness ==
    /\ Len(savedGifs) = 2
    /\ savedGifs[1].id = 2
    /\ savedGifs[2].id = 1

\* C28: the reset scheduled 2 s after a completed export never overwrites
\* the status 'generating', 'analyzing' or 'rendering', or the error, of
\* an operation started in the meantime.
C28_ResetSparesInFlight ==
    [][resetTimers' < resetTimers
          => /\ processingState.status
                   \notin {"generating", "analyzing", "rendering"}
             /\ processingState.error = Null]_vars

\* C25: when the encoder renders, the pixels it holds for every submitted
\* frame are those of the frame's own cell, whatever was drawn on the
\* reused canvas for the frames after it.
C25_FramesByCopy ==
    \A k \in 1 .. Len(exports) :
        exports[k].pc = "encoding" =>
            \A n \in 1 .. Len(exports[k].frames) :
                LET f == exports[k].frames[n]
                    cell == ExporterCell(exports[k].config, f.index)
                IN  /\ exports[k].held[n].row = cell.row
                    /\ exports[k].held[n].col = cell.col

\* An export of several frames has finished encoding; its first and last
\* frame show different cells.
C25_Witness ==
    \E k \in 1 .. Len(exports) :
        /\ exports[k].pc = "encoding"
        /\ Len(exports[k].frames) >= 2
        /\ exports[k].finishedFrames = Len(exports[k].frames)
        /\ exports[k].held[1] # exports[k].held[Len(exports[k].frames)]

\* C26: the dimensions handed to generateGif are the natural width and
\* height of the image the export slices.
C26_DimensionsOfSlicedImage ==
    \A k \in 1 .. Len(exports) :
        exports[k].dimensions = NaturalSize(exports[k].image)

\* The values updateConfig is called with, per key.
ValuesOf(key) ==
    CASE key \in {"rows", "cols"} -> { ParseIntOr1(v) : v \in GridDimInputs }
      [] key = "totalFrames" -> 1 .. (MaxDim * MaxDim + 1)
      [] key = "fps" -> FpsInputs
      [] key = "scale" -> ScaleInputs
      [] key = "direction" -> {"row", "column"}
      [] key = "autoTransparent" -> BOOLEAN

\* C27: updateConfig(key, value) sets the key to the value; when the key
\* is rows or cols and the previous totalFrames equalled the previous
\* rows * cols, totalFrames becomes the new rows * cols and the remaining
\* fields stay; in every other case all fields but the key stay.
C27_TotalFramesCoupling ==
    \A key \in {"rows", "cols", "totalFrames", "fps", "scale", "direction",
                 "autoTransparent"} :
        \A value \in ValuesOf(key) :
            LET next == UpdatedConfig(config, key, value)
                coupled == /\ key \in {"rows", "cols"}
                           /\ config.totalFrames = config.rows * config.cols
            IN  /\ next[key] = value
                /\ coupled => next.totalFrames = next.rows * next.cols
                /\ \A f \in DOMAIN config \ {key} :
                      (coupled /\ f = "totalFrames") \/ next[f] = config[f]

\* A config whose totalFrames differs from rows * cols, left so by a
\* change of rows.
C27_Witness ==
    /\ config.rows = 2
    /\ config.cols = 4
    /\ config.totalFrames = 15

\* The waits before the 1st, 2nd and 3rd retry.
RetryWaits == <<1000, 2000, 4000>>

\* An error with status 503 or code 503, or whose message contains
\* 'overloaded'.
OverloadedError(error) ==
    \/ <<503>> \in {error.status, error.code}
    \/ \E i \in 1 .. Len(error.message) :
          \E j \in i .. Len(error.message) :
              SubSeq(error.message, i, j) = OverloadedText

RetryBounded ==
    /\ retry.calls <= 4
    /\ Len(retry.waits) <= 3
    /\ retry.waits = SubSeq(RetryWaits, 1, Len(retry.waits))
    /\ Len(retry.waits) = IF retry.pc = "sleeping" THEN retry.calls
                          ELSE IF retry.pc = "idle" THEN 0
                          ELSE retry.calls - 1
    /\ \A i \in 1 .. Len(retry.waits) : OverloadedError(retry.errors[i])
    /\ Len(retry.errors) = IF retry.pc \in {"sleeping", "thrown"} THEN retry.calls
                           ELSE IF retry.pc = "idle" THEN 0
                           ELSE retry.calls - 1
    /\ retry.pc = "returned" <=> retry.returned # <<>>
    /\ retry.pc = "thrown" <=> retry.thrown # <<>>
    /\ retry.pc = "thrown" =>
          /\ retry.thrown = <<retry.errors[Len(retry.errors)]>>
          /\ ~OverloadedError(retry.thrown[1]) \/ retry.calls = 4
    /\ \A i \in 1 .. Len(retry.errors) :
          ~OverloadedError(retry.errors[i]) =>
              (i = Len(retry.errors) /\ retry.pc = "thrown")

\* C29: a call of retryOperation with the default arguments calls the
\* operation at most 4 times, calls it again only after an overloaded
\* error and after waiting 1000, 2000 and 4000 ms, returns the result of
\* the first call that succeeds, throws the error of the operation at
\* once when it is not overloaded or when it is the 4th, and ends.
C29_BoundedRetry ==
    /\ []RetryBounded
    /\ <>(retry.pc \in {"returned", "thrown"})

\* The operation was overloaded four times: the call gave up after the
\* three waits.
C29_Witness ==
    /\ retry.pc = "thrown"
    /\ retry.calls = 4
    /\ retry.waits = RetryWaits
    /\ OverloadedError(retry.thrown[1])

====
